---- MODULE Spec2Model ----
(***************************************************************************)
(* KoiLang Python bindings (rust/src): the Parser and Writer classes that  *)
(* wrap the koicore engine.  The binding layer (parser.rs, error.rs,       *)
(* traceback.rs, io.rs, writer.rs, command.rs) is translated from its      *)
(* source.  The koicore engine itself (line classification, the command    *)
(* grammar, option resolution) is an external crate: the operators that    *)
(* stand for it follow the specification's sections 4.1-4.5 and are marked *)
(* "koicore" in their comments.                                            *)
(***************************************************************************)
EXTENDS Integers, Sequences, FiniteSets, TLC

VARIABLES
    cfgArg,     \* the `config` argument of Parser(path_or_file, config)
    file,       \* the file-like object: its `name` attribute and what each readline() call does
    cursor,     \* number of readline() calls that consumed an entry of file.reads
    config,     \* PyParser.config (PyParserConfig)
    inner,      \* PyParser.inner: the koicore Parser (its ParserConfig, its line counter)
    pc,         \* "idle", or "process_with" while the callback loop of process_with runs
    delivered,  \* the Commands handed to the caller so far (returned, or passed to the callback)
    last,       \* what the last step did and what it gave back to Python
    wcfgArg,    \* the `config` argument of Writer(file, config)
    writer,     \* PyWriter.writer: the koicore Writer (its WriterConfig)
    wlast,      \* the last Writer call: its arguments and the options each parameter was formatted with
    sink,       \* the file-like object given to Writer(file, config): what its write() accepts and has received
    moves,      \* the inc_indent / dec_indent calls made so far, in order
    wio,        \* how the last Writer call ended: return or raise, the sink calls it made, its value
    pcmd,       \* a Command object held by Python: PyCommand.inner
    clast       \* the last Command call: its argument and what Python saw before and after

pvars == <<cfgArg, file, cursor, config, inner, pc, delivered, last>>

wvars == <<wcfgArg, writer, wlast, sink, moves, wio>>

cvars == <<pcmd, clast>>

vars == <<pvars, wvars, cvars>>

\* ---------------------------------------------------------------- bounds

MaxLines == 2

MaxThreshold == 2

MaxMoves == 2

MaxWrites == 3

MaxBudget == 1

MaxParams == 3

\* ---------------------------------------------------------------- values

IntV(n) == [t |-> "Int", i |-> n, s |-> ""]

StrV(s) == [t |-> "String", i |-> 0, s |-> s]

\* a float, counted in halves: FloatV(3) is 1.5
FloatV(h) == [t |-> "Float", i |-> h, s |-> ""]

BoolV(b) == [t |-> "Bool", i |-> IF b THEN 1 ELSE 0, s |-> ""]

Pair(k, v) == [k |-> k, v |-> v]

ListV(vs) == [c |-> "List", items |-> [i \in 1..Len(vs) |-> Pair("", vs[i])]]

\* CompositeValue::Dict(Vec<(String, Value)>): the pairs as written, keys may repeat
DictV(pairs) == [c |-> "Dict", items |-> pairs]

Single(v) == [c |-> "Single", items |-> <<[k |-> "", v |-> v]>>]

Basic(v) == [kind |-> "Basic", name |-> "", cv |-> Single(v)]

Composite(n, cv) == [kind |-> "Composite", name |-> n, cv |-> cv]

Command(n, ps) == [name |-> n, params |-> ps]

TextName == "@text"

NumberName == "@number"

NewText(content) == Command(TextName, <<Basic(StrV(content))>>)

NewNumber(value, args) == Command(NumberName, <<Basic(IntV(value))>> \o args)

NoCommand == [some |-> FALSE, val |-> Command("", <<>>)]

SomeCommand(c) == [some |-> TRUE, val |-> c]

\* ---------------------------------------------------------------- lines

NameTok(s) == [k |-> "name", s |-> s, i |-> 0]

IntTok(n) == [k |-> "int", s |-> ToString(n), i |-> n]

IllegalTok == [k |-> "illegal", s |-> "?", i |-> 0]

OpenTok == [k |-> "open", s |-> "[", i |-> 0]

CloseTok == [k |-> "close", s |-> ")", i |-> 0]

Line(m, toks) == [marks |-> m, toks |-> toks]

RECURSIVE Markers(_)
Markers(n) == IF n = 0 THEN "" ELSE "#" \o Markers(n - 1)

RECURSIVE JoinToks(_)
JoinToks(toks) ==
    IF toks = <<>> THEN ""
    ELSE IF Len(toks) = 1 THEN toks[1].s
    ELSE toks[1].s \o " " \o JoinToks(Tail(toks))

LineText(line) == Markers(line.marks) \o JoinToks(line.toks)

\* ---------------------------------------------------------------- errors

NoTraceback == [some |-> FALSE, val |-> [lineno |-> 0, column_range |-> <<0, 0>>, context |-> "", children |-> <<>>]]

SomeTraceback(tb) == [some |-> TRUE, val |-> tb]

NoLineSource == [some |-> FALSE, val |-> [filename |-> <<>>, lineno |-> 0, text |-> ""]]

SomeLineSource(src) == [some |-> TRUE, val |-> src]

NoPyLineSource == [some |-> FALSE, val |-> [filename |-> <<>>, lineno |-> 0, text |-> [some |-> FALSE, val |-> ""]]]

NoFrame == [some |-> FALSE, val |-> [filename |-> <<>>, funcname |-> <<>>, lineno |-> 0]]

PyErr(type, payload, tb, src, frame) ==
    [type |-> type, payload |-> payload, traceback |-> tb, source |-> src, pytb |-> frame]

PlainErr(type, payload) == PyErr(type, payload, NoTraceback, NoPyLineSource, NoFrame)

NoExc == PlainErr("", "")

NoIo == [kind |-> "", msg |-> "", wraps |-> FALSE, pyerr |-> NoExc]

ParseError(kind, payload, tb, src, io) ==
    [kind |-> kind, payload |-> payload, traceback |-> tb, source |-> src, io |-> io]

NoParseError == ParseError("", "", NoTraceback, NoLineSource, NoIo)

ParseKinds == {"SyntaxError", "UnexpectedInput", "UnexpectedEof"}

\* ---------------------------------------------------------------- the line source

\* What one readline() call of the Python object does: returns a non-empty str,
\* raises, or returns something that is not a str.  Past the end of file.reads
\* readline() returns the empty string.
ReadStr(line) == [r |-> "str", line |-> line]

ReadRaise == [r |-> "raise", line |-> Line(0, <<>>)]

ReadNonStr == [r |-> "nonstr", line |-> Line(0, <<>>)]

ReadlineExc == PlainErr("OSError", "readline failed")

NoName == [some |-> FALSE, val |-> <<>>]

SomeName(n) == [some |-> TRUE, val |-> n]

\* "<string>"
AngleString == <<60, 115, 116, 114, 105, 110, 103, 62>>

\* "<koilang>"
AngleKoilang == <<60, 107, 111, 105, 108, 97, 110, 103, 62>>

\* "m.k"
PlainName == <<109, 46, 107>>

\* "m\0k": a str with an interior NUL
NulName == <<109, 0, 107>>

IoOther(pyerr) == [kind |-> "Other", msg |-> "", wraps |-> TRUE, pyerr |-> pyerr]

IoInvalidData(msg) == [kind |-> "InvalidData", msg |-> msg, wraps |-> FALSE, pyerr |-> NoExc]

LineOk(line) == [r |-> "line", line |-> line, io |-> NoIo]

LineEof == [r |-> "eof", line |-> Line(0, <<>>), io |-> NoIo]

LineErr(io) == [r |-> "err", line |-> Line(0, <<>>), io |-> io]

\* a blank line: readline() returns only the line terminator
BlankLine == Line(0, <<>>)

\* a next_line that takes a blank line for the end of input
NextLine_BlankEof(f, n) ==
    IF n > Len(f.reads) THEN LineEof
    ELSE LET o == f.reads[n] IN
         CASE o.r = "raise" -> LineErr(IoOther(ReadlineExc))
           [] o.r = "nonstr" -> LineErr(IoInvalidData("readline() returned non-string value"))
           [] o.line = BlankLine -> LineEof
           [] OTHER -> LineOk(o.line)

\* impl TextInputSource for PyIoWrapper: next_line, on the n-th readline() call
NextLine(f, n) ==
    IF n > Len(f.reads) THEN LineEof
    ELSE LET o == f.reads[n] IN
         CASE o.r = "raise" -> LineErr(IoOther(ReadlineExc))
           [] o.r = "nonstr" -> LineErr(IoInvalidData("readline() returned non-string value"))
           [] OTHER -> LineOk(o.line)

\* impl TextInputSource for PyIoWrapper: source_name
SourceName(f) == IF f.name.some THEN f.name.val ELSE AngleString

\* ---------------------------------------------------------------- configuration

NoThreshold == [some |-> FALSE, val |-> 0]

SomeThreshold(n) == [some |-> TRUE, val |-> n]

PyParserConfig(th, skipAnn, conv, skipTb) ==
    [command_threshold |-> th, skip_annotations |-> skipAnn,
     convert_number_command |-> conv, skip_add_traceback |-> skipTb]

\* #[derive(Default)] on PyParserConfig: None and false for every field
PyParserConfigDefault == PyParserConfig(NoThreshold, FALSE, FALSE, FALSE)

NoConfig == [some |-> FALSE, val |-> PyParserConfigDefault]

SomeConfig(c) == [some |-> TRUE, val |-> c]

\* impl From<PyParserConfig> for ParserConfig, with the default threshold turned off
ParserConfigFrom_NoDefault(c) ==
    [command_threshold |-> c.command_threshold.val,
     skip_annotations |-> c.skip_annotations,
     convert_number_command |-> c.convert_number_command]

\* impl From<PyParserConfig> for ParserConfig, forgetting convert_number_command
ParserConfigFrom_NoConvert(c) ==
    [command_threshold |-> IF c.command_threshold.some THEN c.command_threshold.val ELSE 1,
     skip_annotations |-> c.skip_annotations,
     convert_number_command |-> FALSE]

\* impl From<PyParserConfig> for ParserConfig
ParserConfigFrom(c) ==
    [command_threshold |-> IF c.command_threshold.some THEN c.command_threshold.val ELSE 1,
     skip_annotations |-> c.skip_annotations,
     convert_number_command |-> c.convert_number_command]

\* PyParser::new for a file-like object: config.unwrap_or_default(), Parser::new(input, config.into())
PyParserNew(arg) ==
    LET c == IF arg.some THEN arg.val ELSE PyParserConfigDefault
    IN [config |-> c, inner |-> [cfg |-> ParserConfigFrom(c), lineno |-> 0]]

\* ---------------------------------------------------------------- koicore: classifier and command parser

CoreOk(optCmd) == [ok |-> TRUE, cmd |-> optCmd, err |-> NoParseError]

CoreErr(e) == [ok |-> FALSE, cmd |-> NoCommand, err |-> e]

\* koicore (spec 4.1): a command header is at least `command_threshold` markers followed by a name
IsHeader(line, th) ==
    /\ line.marks >= th
    /\ line.toks # <<>>
    /\ line.toks[1].k = "name"

\* koicore (spec 4.1, edge case): purely numeric text, when convert_number_command is enabled
IsNumberLine(line, conv) ==
    /\ conv
    /\ line.marks = 0
    /\ line.toks # <<>>
    /\ line.toks[1].k = "int"

TokValue(tok) == IF tok.k = "int" THEN IntV(tok.i) ELSE StrV(tok.s)

\* column at which token j of a line starts
RECURSIVE TokStart(_, _)
TokStart(line, j) ==
    IF j = 1 THEN line.marks
    ELSE TokStart(line, j - 1) + Len(line.toks[j - 1].s) + 1

Frame(lineno, range, context, children) ==
    [lineno |-> lineno, column_range |-> range, context |-> context, children |-> children]

\* koicore (spec 4.2 steps 4-6): what the first token that is no value raises
ErrorOfToken(line, j) ==
    LET tok == line.toks[j] IN
    CASE tok.k = "open" -> [kind |-> "UnexpectedEof", payload |-> "closing bracket", context |-> "list"]
      [] tok.k = "close" ->
            [kind |-> "UnexpectedInput",
             payload |-> JoinToks(SubSeq(line.toks, j, Len(line.toks))),
             context |-> "parameter"]
      [] OTHER -> [kind |-> "SyntaxError", payload |-> "illegal character", context |-> "parameter"]

\* koicore (spec 4.2, 4.3): the parameters of a line from token `from` on, or the
\* error of the first bad token with the frames open at the failure
ParseParams(line, from, ctx, lineno, filename) ==
    LET n == Len(line.toks)
        bad == {j \in from..n : line.toks[j].k \notin {"int", "name"}}
    IN  IF bad = {}
        THEN [ok |-> TRUE,
              params |-> [j \in 1..(n - from + 1) |-> Basic(TokValue(line.toks[j + from - 1]))],
              err |-> NoParseError]
        ELSE LET j == CHOOSE x \in bad : \A y \in bad : x <= y
                 e == ErrorOfToken(line, j)
                 child == Frame(lineno, <<TokStart(line, j), Len(LineText(line))>>, e.context, <<>>)
                 root == Frame(lineno, <<0, Len(LineText(line))>>, ctx, <<child>>)
             IN [ok |-> FALSE,
                 params |-> <<>>,
                 err |-> ParseError(e.kind, e.payload, SomeTraceback(root),
                                    SomeLineSource([filename |-> filename, lineno |-> lineno,
                                                    text |-> LineText(line)]),
                                    NoIo)]

\* koicore (spec 4.1, 4.2): one line to a Command or a ParseError
ParseLine(line, cfg, lineno, filename) ==
    IF IsHeader(line, cfg.command_threshold)
    THEN LET ps == ParseParams(line, 2, "command", lineno, filename)
         IN IF ps.ok THEN CoreOk(SomeCommand(Command(line.toks[1].s, ps.params)))
            ELSE CoreErr(ps.err)
    ELSE IF IsNumberLine(line, cfg.convert_number_command)
    THEN LET ps == ParseParams(line, 2, "number", lineno, filename)
         IN IF ps.ok THEN CoreOk(SomeCommand(NewNumber(line.toks[1].i, ps.params)))
            ELSE CoreErr(ps.err)
    ELSE CoreOk(SomeCommand(NewText(LineText(line))))

\* koicore (spec 4.2, 4.4): Parser::next_command.  Reads one line; an I/O failure
\* becomes an IoError with no traceback and no line source.
CoreNextCommand(p, f, cur) ==
    LET nl == NextLine(f, cur + 1) IN
    CASE nl.r = "eof" -> [res |-> CoreOk(NoCommand), inner |-> p, cursor |-> cur, line |-> nl]
      [] nl.r = "err" ->
            [res |-> CoreErr(ParseError("IoError", "", NoTraceback, NoLineSource, nl.io)),
             inner |-> p, cursor |-> cur + 1, line |-> nl]
      [] OTHER ->
            [res |-> ParseLine(nl.line, p.cfg, p.lineno + 1, SourceName(f)),
             inner |-> [p EXCEPT !.lineno = p.lineno + 1], cursor |-> cur + 1, line |-> nl]

\* ---------------------------------------------------------------- binding: errors

\* impl From<ParserLineSource> for PyParserLineSource
PyLineSourceFrom(src) ==
    [filename |-> src.filename, lineno |-> src.lineno, text |-> [some |-> TRUE, val |-> src.text]]

MapLineSource(optSrc) ==
    IF optSrc.some THEN [some |-> TRUE, val |-> PyLineSourceFrom(optSrc.val)] ELSE NoPyLineSource

\* impl From<TracebackEntry> for PyTracebackEntry: PyTracebackEntry { inner: traceback }
MapTraceback(optTb) == optTb

\* PyTracebackEntry::children: one PyTracebackEntry per child, in the order of inner.children
PyChildren(entry) == [i \in 1..Len(entry.children) |-> entry.children[i]]

\* `error.into()` on a std::io::Error: the Python exception it wraps, else an OSError
IoIntoPyErr(io) == IF io.wraps THEN io.pyerr ELSE PlainErr("OSError", io.msg)

\* raise_parser_err with the IoError arm wrapped as a KoiParseError
RaiseParserErr_IoWrapped(e) ==
    CASE e.kind = "SyntaxError" ->
            PyErr("KoiParserSyntaxError", e.payload, MapTraceback(e.traceback), MapLineSource(e.source), NoFrame)
      [] e.kind = "UnexpectedInput" ->
            PyErr("KoiParserUnexpectedInputError", e.payload, MapTraceback(e.traceback), MapLineSource(e.source), NoFrame)
      [] e.kind = "UnexpectedEof" ->
            PyErr("KoiParserUnexpectedEofError", e.payload, MapTraceback(e.traceback), MapLineSource(e.source), NoFrame)
      [] OTHER ->
            PyErr("KoiParseError", e.io.msg, MapTraceback(e.traceback), MapLineSource(e.source), NoFrame)

\* a raise_parser_err that leaves the line source behind
RaiseParserErr_NoSource(e) ==
    CASE e.kind = "SyntaxError" ->
            PyErr("KoiParserSyntaxError", e.payload, MapTraceback(e.traceback), NoPyLineSource, NoFrame)
      [] e.kind = "UnexpectedInput" ->
            PyErr("KoiParserUnexpectedInputError", e.payload, MapTraceback(e.traceback), NoPyLineSource, NoFrame)
      [] e.kind = "UnexpectedEof" ->
            PyErr("KoiParserUnexpectedEofError", e.payload, MapTraceback(e.traceback), NoPyLineSource, NoFrame)
      [] OTHER -> IoIntoPyErr(e.io)

\* raise_parser_err
RaiseParserErr(e) ==
    CASE e.kind = "SyntaxError" ->
            PyErr("KoiParserSyntaxError", e.payload, MapTraceback(e.traceback), MapLineSource(e.source), NoFrame)
      [] e.kind = "UnexpectedInput" ->
            PyErr("KoiParserUnexpectedInputError", e.payload, MapTraceback(e.traceback), MapLineSource(e.source), NoFrame)
      [] e.kind = "UnexpectedEof" ->
            PyErr("KoiParserUnexpectedEofError", e.payload, MapTraceback(e.traceback), MapLineSource(e.source), NoFrame)
      [] OTHER -> IoIntoPyErr(e.io)

\* CString::new fails on an interior NUL byte
HasNul(str) == \E i \in 1..Len(str) : str[i] = 0

\* add_traceback: the exception with a Python frame (filename, funcname, lineno)
\* pushed on its traceback, or the ValueError that replaces it
AddTraceback(exc, filename, funcname, lineno) ==
    IF HasNul(filename) THEN PlainErr("ValueError", "Invalid filename")
    ELSE IF HasNul(funcname) THEN PlainErr("ValueError", "Invalid funcname")
    ELSE [exc EXCEPT !.pytb = [some |-> TRUE,
                               val |-> [filename |-> filename, funcname |-> funcname, lineno |-> lineno]]]

\* the Err arm shared by next_command (after its IoError return) and process_with
DecoratedErr(e, c) ==
    LET exc == RaiseParserErr(e) IN
    IF e.source.some /\ ~c.skip_add_traceback
    THEN AddTraceback(exc, e.source.val.filename, AngleKoilang, e.source.val.lineno)
    ELSE exc

\* ---------------------------------------------------------------- binding: Parser methods

PyRet(optCmd) == [r |-> "ret", cmd |-> optCmd, exc |-> NoExc]

PyRaise(exc) == [r |-> "raise", cmd |-> NoCommand, exc |-> exc]

\* PyParser::next_command dropping the Command it got
PyNextCommand_Drop(res, c) ==
    IF res.ok THEN PyRet(NoCommand)
    ELSE IF res.err.kind = "IoError" THEN PyRaise(IoIntoPyErr(res.err.io))
    ELSE PyRaise(DecoratedErr(res.err, c))

\* PyParser::next_command, on the result of self.inner.next_command()
PyNextCommand(res, c) ==
    IF res.ok THEN PyRet(res.cmd)
    ELSE IF res.err.kind = "IoError" THEN PyRaise(IoIntoPyErr(res.err.io))
    ELSE PyRaise(DecoratedErr(res.err, c))

StopIteration == PlainErr("StopIteration", "")

\* PyParser::__next__
PyDunderNext(res, c) ==
    LET out == PyNextCommand(res, c) IN
    IF out.r = "ret" /\ ~out.cmd.some THEN PyRaise(StopIteration) ELSE out

CallbackExc == PlainErr("RuntimeError", "raised by the callback")

NotBoolExc == PlainErr("TypeError", "cannot be converted to PyBool")

NotCallableExc == PlainErr("ValueError", "Callback must be callable")

\* what one call of the callback does
CallbackOutcomes == {"true", "false", "raise", "nonbool"}

\* a loop that returns true when the callback answers false
PyProcessWithTurn_StopIsTrue(res, resp, c) ==
    IF res.ok /\ res.cmd.some
    THEN CASE resp = "raise" -> [r |-> "raise", flag |-> FALSE, exc |-> CallbackExc]
           [] resp = "nonbool" -> [r |-> "raise", flag |-> FALSE, exc |-> NotBoolExc]
           [] resp = "false" -> [r |-> "ret", flag |-> TRUE, exc |-> NoExc]
           [] OTHER -> [r |-> "cont", flag |-> FALSE, exc |-> NoExc]
    ELSE IF res.ok
    THEN [r |-> "ret", flag |-> TRUE, exc |-> NoExc]
    ELSE [r |-> "raise", flag |-> FALSE, exc |-> DecoratedErr(res.err, c)]

\* one turn of the loop of PyParser::process_with: "cont" goes round again
PyProcessWithTurn(res, resp, c) ==
    IF res.ok /\ res.cmd.some
    THEN CASE resp = "raise" -> [r |-> "raise", flag |-> FALSE, exc |-> CallbackExc]
           [] resp = "nonbool" -> [r |-> "raise", flag |-> FALSE, exc |-> NotBoolExc]
           [] resp = "false" -> [r |-> "ret", flag |-> FALSE, exc |-> NoExc]
           [] OTHER -> [r |-> "cont", flag |-> FALSE, exc |-> NoExc]
    ELSE IF res.ok
    THEN [r |-> "ret", flag |-> TRUE, exc |-> NoExc]
    ELSE [r |-> "raise", flag |-> FALSE, exc |-> DecoratedErr(res.err, c)]

\* a process_with whose callable check comes after a first read
PyProcessWithCheck_ReadFirst(p, f, cur, callable) ==
    LET step == CoreNextCommand(p, f, cur) IN
    IF callable THEN [r |-> "cont", exc |-> NoExc, inner |-> p, cursor |-> cur]
    ELSE [r |-> "raise", exc |-> NotCallableExc, inner |-> step.inner, cursor |-> step.cursor]

\* PyParser::process_with, before its loop: if !callback.is_callable() { return Err(..) }
PyProcessWithCheck(p, f, cur, callable) ==
    IF callable THEN [r |-> "cont", exc |-> NoExc, inner |-> p, cursor |-> cur]
    ELSE [r |-> "raise", exc |-> NotCallableExc, inner |-> p, cursor |-> cur]

\* a turn that reads one command further once the callback has stopped the loop
PyProcessWithStep_ReadAhead(p, f, cur, resp, c) ==
    LET step == CoreNextCommand(p, f, cur)
        out == PyProcessWithTurn(step.res, resp, c)
        more == CoreNextCommand(step.inner, f, step.cursor)
        stopped == step.res.ok /\ step.res.cmd.some /\ out.r # "cont"
    IN [out |-> out, res |-> step.res, line |-> step.line,
        inner |-> IF stopped THEN more.inner ELSE step.inner,
        cursor |-> IF stopped THEN more.cursor ELSE step.cursor]

\* one turn of the loop of PyParser::process_with: parser.next_command(), then the match
PyProcessWithStep(p, f, cur, resp, c) ==
    LET step == CoreNextCommand(p, f, cur)
    IN [out |-> PyProcessWithTurn(step.res, resp, c), res |-> step.res, line |-> step.line,
        inner |-> step.inner, cursor |-> step.cursor]

\* what raise_parser_err returned in a call, if the call reached it: next_command
\* returns an IoError before it, process_with does not
RaisedBy(op, res) ==
    IF res.ok THEN NoExc
    ELSE IF op # "process_with" /\ res.err.kind = "IoError" THEN NoExc
    ELSE RaiseParserErr(res.err)

\* the last call on the Parser: what it returned or raised, the answer of the callback,
\* the result of koicore's next_command and the line read, the exception
\* raise_parser_err built, the cursor at the start of the call, the commands handed
\* to the callback during it, and how the call before it ended
Last(op, r, cmd, flag, exc, cb, core, line, start, calls, prev) ==
    [op |-> op, r |-> r, cmd |-> cmd, flag |-> flag, exc |-> exc, cb |-> cb, core |-> core,
     line |-> line, raised |-> RaisedBy(op, core), start |-> start, calls |-> calls,
     prev |-> prev]

LastNew ==
    Last("new", "ret", NoCommand, FALSE, NoExc, "none", CoreOk(NoCommand), LineEof, 0, <<>>, "none")

\* how a call ended: process_with refused its callback, process_with was ended by
\* its callback, or anything else
Ended(l) ==
    IF l.op = "new" THEN "none"
    ELSE IF l.op = "process_with" /\ l.exc = NotCallableExc THEN "notcallable"
    ELSE IF l.op = "process_with" /\ l.cb \in {"false", "raise", "nonbool"} THEN "early"
    ELSE "other"

Deliver(seq, optCmd) == IF optCmd.some THEN Append(seq, optCmd.val) ELSE seq

\* parser.next_command()
NextCommand ==
    /\ pc = "idle"
    /\ LET step == CoreNextCommand(inner, file, cursor)
           out == PyNextCommand(step.res, config)
       IN /\ inner' = step.inner
          /\ cursor' = step.cursor
          /\ delivered' = Deliver(delivered, out.cmd)
          /\ last' = Last("next_command", out.r, out.cmd, FALSE, out.exc, "none", step.res, step.line,
                          cursor, <<>>, Ended(last))
    /\ UNCHANGED <<cfgArg, file, config, pc>>
    /\ UNCHANGED <<wvars, cvars>>

\* next(parser)
DunderNext ==
    /\ pc = "idle"
    /\ LET step == CoreNextCommand(inner, file, cursor)
           out == PyDunderNext(step.res, config)
       IN /\ inner' = step.inner
          /\ cursor' = step.cursor
          /\ delivered' = Deliver(delivered, out.cmd)
          /\ last' = Last("__next__", out.r, out.cmd, FALSE, out.exc, "none", step.res, step.line,
                          cursor, <<>>, Ended(last))
    /\ UNCHANGED <<cfgArg, file, config, pc>>
    /\ UNCHANGED <<wvars, cvars>>

\* parser.process_with(callback): the callable check
ProcessWithEnter ==
    /\ pc = "idle"
    /\ \E callable \in BOOLEAN :
          LET chk == PyProcessWithCheck(inner, file, cursor, callable)
          IN /\ pc' = IF chk.r = "cont" THEN "process_with" ELSE "idle"
             /\ inner' = chk.inner
             /\ cursor' = chk.cursor
             /\ last' = Last("process_with", chk.r, NoCommand, FALSE, chk.exc, "none",
                             CoreOk(NoCommand), LineEof, cursor, <<>>, Ended(last))
    /\ UNCHANGED <<cfgArg, file, config, delivered>>
    /\ UNCHANGED <<wvars, cvars>>

\* parser.process_with(callback): one turn of its loop, the callback answering `resp`
ProcessWithLoop ==
    /\ pc = "process_with"
    /\ \E resp \in CallbackOutcomes :
          LET step == PyProcessWithStep(inner, file, cursor, resp, config)
              called == step.res.ok /\ step.res.cmd.some
              out == step.out
          IN /\ inner' = step.inner
             /\ cursor' = step.cursor
             /\ delivered' = IF called THEN Append(delivered, step.res.cmd.val) ELSE delivered
             /\ pc' = IF out.r = "cont" THEN "process_with" ELSE "idle"
             /\ last' = Last("process_with", out.r, IF called THEN step.res.cmd ELSE NoCommand,
                             out.flag, out.exc, IF called THEN resp ELSE "none", step.res, step.line,
                             last.start,
                             IF called THEN Append(last.calls, step.res.cmd.val) ELSE last.calls,
                             last.prev)
    /\ UNCHANGED <<cfgArg, file, config>>
    /\ UNCHANGED <<wvars, cvars>>

\* ---------------------------------------------------------------- the writer: options

\* PyNumberFormat, and koicore's NumberFormat
PyNumberFormats == {"UNKNOWN", "DECIMAL", "HEX", "OCTAL", "BINARY"}

NumberFormatFrom(format) ==
    CASE format = "UNKNOWN" -> "Unknown"
      [] format = "DECIMAL" -> "Decimal"
      [] format = "HEX"     -> "Hex"
      [] format = "OCTAL"   -> "Octal"
      [] format = "BINARY"  -> "Binary"

\* PyFormatterOptions: every field always holds a value
PyFormatterOptions(indent, number_format, should_override) ==
    [indent |-> indent, use_tabs |-> FALSE, newline_before |-> FALSE, newline_after |-> FALSE,
     compact |-> FALSE, force_quotes_for_vars |-> FALSE, number_format |-> number_format,
     newline_before_param |-> FALSE, newline_after_param |-> FALSE,
     should_override |-> should_override]

\* a conversion that loses should_override
FormatterOptionsFrom_NoOverride(options) ==
    [options EXCEPT !.number_format = NumberFormatFrom(options.number_format),
                    !.should_override = FALSE]

\* impl From<PyFormatterOptions> for FormatterOptions
FormatterOptionsFrom(options) ==
    [options EXCEPT !.number_format = NumberFormatFrom(options.number_format)]

\* koicore's FormatterOptions::default()
DefaultOptions ==
    [indent |-> 4, use_tabs |-> FALSE, newline_before |-> FALSE, newline_after |-> FALSE,
     compact |-> FALSE, force_quotes_for_vars |-> FALSE, number_format |-> "Unknown",
     newline_before_param |-> FALSE, newline_after_param |-> FALSE, should_override |-> FALSE]

\* the fields a layer can set
OptionFields ==
    {"indent", "use_tabs", "newline_before", "newline_after", "compact", "force_quotes_for_vars",
     "number_format", "newline_before_param", "newline_after_param"}

NoOptions == [some |-> FALSE, val |-> DefaultOptions]

SomeOptions(options) == [some |-> TRUE, val |-> options]

NoPyOptions == [some |-> FALSE, val |-> PyFormatterOptions(4, "UNKNOWN", FALSE)]

\* PyParamFormatSelector
Position(n) == [sel |-> "Position", pos |-> n, name |-> ""]

Name(s) == [sel |-> "Name", pos |-> 0, name |-> s]

NoSelector == [sel |-> "none", pos |-> 0, name |-> ""]

\* impl From<PyParamFormatSelector> for ParamFormatSelector
ParamFormatSelectorFrom(selector) ==
    IF selector.sel = "Position" THEN Position(selector.pos) ELSE Name(selector.name)

\* PyWriterConfig
PyWriterConfig(global_options, command_options, command_threshold) ==
    [global_options |-> global_options, command_options |-> command_options,
     command_threshold |-> command_threshold]

NoWriterConfig ==
    [some |-> FALSE, val |-> PyWriterConfig(PyFormatterOptions(4, "UNKNOWN", FALSE), <<>>, 1)]

SomeWriterConfig(c) == [some |-> TRUE, val |-> c]

\* koicore's WriterConfig::default()
DefaultWriterConfig ==
    [global_options |-> DefaultOptions, command_options |-> <<>>, command_threshold |-> 1]

\* a conversion that loses the per-command options
WriterConfigFrom_NoCommands(c) ==
    [global_options    |-> FormatterOptionsFrom(c.global_options),
     command_options   |-> <<>>,
     command_threshold |-> c.command_threshold]

\* impl From<PyWriterConfig> for WriterConfig
WriterConfigFrom(c) ==
    [global_options    |-> FormatterOptionsFrom(c.global_options),
     command_options   |-> [k \in DOMAIN c.command_options |->
                               FormatterOptionsFrom(c.command_options[k])],
     command_threshold |-> c.command_threshold]

\* PyWriter::new: config.map(WriterConfig::from).unwrap_or_default()
PyWriterNew(arg) ==
    [config |-> IF arg.some THEN WriterConfigFrom(arg.val) ELSE DefaultWriterConfig,
     level  |-> 0]

\* ---------------------------------------------------------------- koicore's writer: the layers

\* a layer sets a field when the field differs from the default
Sets(layer, f) == layer[f] # DefaultOptions[f]

\* one layer put over the options of the layers below it
Over(layer, below) ==
    IF layer.should_override
    THEN layer
    ELSE [f \in DOMAIN layer |->
             IF f \in OptionFields /\ ~Sets(layer, f) THEN below[f] ELSE layer[f]]

\* the layers of a chain, highest priority first, merged from the bottom
RECURSIVE MergeChain(_)
MergeChain(chain) ==
    IF Len(chain) = 1 THEN chain[1] ELSE Over(Head(chain), MergeChain(Tail(chain)))

\* the selectors that name parameter i (from 1) of a command
SelectorsOf(cmd, i) ==
    {Position(i - 1)} \cup
    (IF cmd.params[i].kind = "Composite" THEN {Name(cmd.params[i].name)} ELSE {})

\* the entries of the parameter map that apply to parameter i
Matching(cmd, i, param_options) ==
    IF param_options.some THEN SelectorsOf(cmd, i) \cap DOMAIN param_options.val ELSE {}

\* the layers present for one parameter, highest priority first
Layers(cfg, cmd, options, param_options, pick) ==
    (IF pick = NoSelector THEN <<>> ELSE <<param_options.val[pick]>>)
    \o (IF options.some THEN <<options.val>> ELSE <<>>)
    \o (IF cmd.name \in DOMAIN cfg.command_options THEN <<cfg.command_options[cmd.name]>> ELSE <<>>)
    \o <<cfg.global_options>>

\* Writer::write_command_with_options: the options each parameter is formatted with,
\* picks[i] being the entry of the parameter map taken for parameter i
CoreWriteCommandWithOptions(w, cmd, options, param_options, picks) ==
    [i \in 1..Len(cmd.params) |->
        MergeChain(Layers(w.config, cmd, options, param_options, picks[i]))]

\* the entries the writer may take for each parameter
Picks(cmd, param_options) ==
    {p \in [1..Len(cmd.params) -> {NoSelector} \cup UNION {SelectorsOf(cmd, i) : i \in 1..Len(cmd.params)}] :
        \A i \in 1..Len(cmd.params) :
            IF Matching(cmd, i, param_options) = {}
            THEN p[i] = NoSelector
            ELSE p[i] \in Matching(cmd, i, param_options)}

\* ---------------------------------------------------------------- the sink

\* the exception the sink's write() raises
SinkWriteExc == PlainErr("OSError", "write failed")

\* a file-like object: `limited` sinks accept `left` more write() calls and raise
\* on every later one; `keeps` sinks record what each Writer call handed them
Sink(keeps, limited, left) ==
    [keeps |-> keeps, limited |-> limited, left |-> left, log |-> <<>>, flushes |-> 0]

\* impl Write for PyIoWrapper: write, one call
PyIoWrite(s) ==
    IF s.limited /\ s.left = 0
    THEN [ok |-> FALSE, io |-> IoOther(SinkWriteExc), sink |-> s]
    ELSE [ok |-> TRUE, io |-> NoIo,
          sink |-> IF s.limited THEN [s EXCEPT !.left = @ - 1] ELSE s]

\* koicore: n chunks handed to the sink one write() call each, stopping at the
\* first failure; `done` calls have been accepted
RECURSIVE WriteAll(_, _, _)
WriteAll(s, n, done) ==
    IF done = n
    THEN [ok |-> TRUE, io |-> NoIo, sink |-> s, calls |-> done, accepted |-> done]
    ELSE LET w == PyIoWrite(s)
         IN IF w.ok
            THEN WriteAll(w.sink, n, done + 1)
            ELSE [ok |-> FALSE, io |-> w.io, sink |-> w.sink, calls |-> done + 1,
                  accepted |-> done]

\* koicore: one operation's chunks written out, and the chunks the sink accepted
Emit(s, chunks) ==
    LET w == WriteAll(s, Len(chunks), 0)
    IN [ok |-> w.ok, io |-> w.io, sink |-> w.sink, calls |-> w.calls,
        bytes |-> SubSeq(chunks, 1, w.accepted)]

\* what a keeping sink holds after a Writer call
Logged(s, op, cmd, level, bytes) ==
    IF s.keeps
    THEN [s EXCEPT !.log = Append(@, [op |-> op, cmd |-> cmd, level |-> level, bytes |-> bytes])]
    ELSE s

\* ---------------------------------------------------------------- koicore's writer: rendering

NoParam == Basic(IntV(0))

Chunk(part, pad, n, marks, name, param, fmt) ==
    [part |-> part, pad |-> pad, n |-> n, marks |-> marks, name |-> name, param |-> param,
     fmt |-> fmt]

\* the start of a command's line: the indentation, then the markers and the name
HeaderChunk(cfg, level, cmd, o) ==
    Chunk("header", IF o.use_tabs THEN "\t" ELSE " ",
          IF o.use_tabs THEN level ELSE o.indent * level,
          cfg.command_threshold, cmd.name, NoParam, "")

ParamChunk(param, o) == Chunk("param", "", 0, 0, "", param, o.number_format)

NewlineChunk == Chunk("newline", "", 0, 0, "", NoParam, "")

\* a command as chunks: its header, then its parameters in stored order
RenderCommand(cfg, level, cmd, o, paramOptions) ==
    <<HeaderChunk(cfg, level, cmd, o)>>
    \o [i \in 1..Len(cmd.params) |-> ParamChunk(cmd.params[i], paramOptions[i])]

\* the options write_command resolves: command_options[cmd.name] if present, else global_options
CommandOptions(cfg, cmd) ==
    IF cmd.name \in DOMAIN cfg.command_options
    THEN cfg.command_options[cmd.name]
    ELSE cfg.global_options

\* Writer::write_command
CoreWriteCommand(w, s, cmd) ==
    LET o == CommandOptions(w.config, cmd)
    IN Emit(s, RenderCommand(w.config, w.level, cmd, o, [i \in 1..Len(cmd.params) |-> o]))

\* Writer::write_command_with_options: the chunks handed to the sink
CoreWriteWithOptions(w, s, cmd, options, param_options, picks) ==
    Emit(s, RenderCommand(w.config, w.level, cmd,
                          MergeChain(Layers(w.config, cmd, options, param_options, NoSelector)),
                          CoreWriteCommandWithOptions(w, cmd, options, param_options, picks)))

\* Writer::newline
CoreNewline(w, s) == Emit(s, <<NewlineChunk>>)

\* Writer::inc_indent
CoreIncIndent(w) == [w EXCEPT !.level = @ + 1]

\* Writer::dec_indent
CoreDecIndent(w) == [w EXCEPT !.level = IF @ = 0 THEN 0 ELSE @ - 1]

\* Writer::get_indent
CoreGetIndent(w) == w.level

\* ---------------------------------------------------------------- the binding: Writer methods

NoParamMap == [some |-> FALSE, val |-> <<>>]

\* a call that drops the call-level options
WithOptionsArgs_NoCall(options, param_options) ==
    [opt |-> NoOptions,
     param_opt |->
        IF DOMAIN param_options = {}
        THEN NoParamMap
        ELSE [some |-> TRUE,
              val  |-> [k \in {ParamFormatSelectorFrom(s) : s \in DOMAIN param_options} |->
                           FormatterOptionsFrom(param_options[k])]]]

\* PyWriter::write_command_with_options: what it hands to koicore
WithOptionsArgs(options, param_options) ==
    [opt |-> IF options.some THEN SomeOptions(FormatterOptionsFrom(options.val)) ELSE NoOptions,
     param_opt |->
        IF DOMAIN param_options = {}
        THEN NoParamMap
        ELSE [some |-> TRUE,
              val  |-> [k \in {ParamFormatSelectorFrom(s) : s \in DOMAIN param_options} |->
                           FormatterOptionsFrom(param_options[k])]]]

Wio(r, exc, calls, bytes, flushed, value) ==
    [r |-> r, exc |-> exc, calls |-> calls, bytes |-> bytes, flushed |-> flushed, value |-> value]

WioNew == Wio("ret", NoExc, 0, <<>>, FALSE, 0)

\* PyWriter::write_command, write_command_with_options: .map_err(|e| e.into())
PyWriteResult(res) ==
    IF res.ok THEN [r |-> "ret", exc |-> NoExc] ELSE [r |-> "raise", exc |-> IoIntoPyErr(res.io)]

\* a write_command that leaves the Writer with one more marker for the next header
PyWriteCommand_Drift(w, s, cmd) ==
    [res |-> CoreWriteCommand(w, s, cmd),
     writer |-> [w EXCEPT !.config.command_threshold = @ + 1]]

\* PyWriter::write_command: self.writer.write_command(&command.inner)
PyWriteCommand(w, s, cmd) == [res |-> CoreWriteCommand(w, s, cmd), writer |-> w]

\* how an io::Error prints
IoDisplay(io) == IF io.wraps THEN io.pyerr.type \o ": " \o io.pyerr.payload ELSE io.msg

\* PyWriter::newline: .map_err(|e| PyValueError::new_err(format!("Failed to write newline: {}", e)))
PyNewlineResult(res) ==
    IF res.ok THEN [r |-> "ret", exc |-> NoExc]
    ELSE [r |-> "raise", exc |-> PlainErr("ValueError", "Failed to write newline: " \o IoDisplay(res.io))]

\* an inc_indent that leaves the level alone
PyIncIndent_Noop(w) == w

\* PyWriter::inc_indent
PyIncIndent(w) == CoreIncIndent(w)

\* a dec_indent that leaves the level alone
PyDecIndent_Noop(w) == w

\* PyWriter::dec_indent
PyDecIndent(w) == CoreDecIndent(w)

\* PyWriter::get_indent
PyGetIndent(w) == CoreGetIndent(w)

\* PyWriter::close: returns Ok(()) and touches neither the Writer nor the sink
PyClose(w, s) == [r |-> "ret", exc |-> NoExc, writer |-> w, sink |-> s, flushed |-> FALSE]

\* PyWriter::__exit__: self.close()
PyExit(w, s) == PyClose(w, s)

WLast(op, cmd, options, param_options, picks, out) ==
    [op |-> op, cmd |-> cmd, options |-> options, param_options |-> param_options,
     picks |-> picks, out |-> out]

WLastNew == WLast("new", NewText(""), NoPyOptions, <<>>, <<>>, <<>>)

\* the commands written
WrittenCommands ==
    { Command("cmd", <<Basic(IntV(10)), Composite("k", Single(IntV(11)))>>),
      Command("oth", <<Basic(IntV(10))>>) }

\* the global options given at construction
GlobalOptions == {PyFormatterOptions(4, "UNKNOWN", FALSE), PyFormatterOptions(2, "OCTAL", FALSE)}

\* the command_options dicts given at construction
CommandDicts ==
    UNION {[S -> {PyFormatterOptions(4, "DECIMAL", FALSE), PyFormatterOptions(3, "UNKNOWN", FALSE),
                  PyFormatterOptions(3, "DECIMAL", TRUE)}] : S \in SUBSET {"cmd"}}

WriterConfigs ==
    {NoWriterConfig} \cup
    {SomeWriterConfig(PyWriterConfig(g, co, th)) :
        g \in GlobalOptions, co \in CommandDicts, th \in 1..MaxThreshold}

\* the options given to one call
CallOptions == {PyFormatterOptions(8, "HEX", FALSE), PyFormatterOptions(4, "HEX", TRUE)}

\* the param_options dicts given to one call
ParamDicts ==
    UNION {[S -> {PyFormatterOptions(4, "BINARY", FALSE), PyFormatterOptions(4, "BINARY", TRUE)}] :
              S \in SUBSET {Position(0), Position(1), Name("k")}}

\* writer.write_command_with_options(command, options, param_options)
WriteCommandWithOptions ==
    \E cmd \in WrittenCommands, options \in {NoPyOptions} \cup {[some |-> TRUE, val |-> o] : o \in CallOptions},
       param_options \in ParamDicts :
        \E args \in {WithOptionsArgs(options, param_options)} :
           \E picks \in Picks(cmd, args.param_opt) :
           \E res \in {CoreWriteWithOptions(writer, sink, cmd, args.opt, args.param_opt, picks)} :
              LET out == PyWriteResult(res)
              IN /\ sink.keeps => Len(sink.log) < MaxWrites
                 /\ wlast' = WLast("write_command_with_options", cmd, options, param_options, picks,
                                   CoreWriteCommandWithOptions(writer, cmd, args.opt, args.param_opt, picks))
                 /\ sink' = Logged(res.sink, "write_command_with_options", cmd, writer.level, res.bytes)
                 /\ wio' = Wio(out.r, out.exc, res.calls, res.bytes, FALSE, 0)
                 /\ UNCHANGED <<wcfgArg, writer, moves>>
                 /\ UNCHANGED <<pvars, cvars>>

\* the commands written through write_command
PlainCommands ==
    { Command("cmd", <<Basic(IntV(10))>>),
      Command("oth", <<Basic(IntV(10)), Composite("k", Single(IntV(11)))>>) }

WLastOf(op) == WLast(op, NewText(""), NoPyOptions, <<>>, <<>>, <<>>)

\* writer.write_command(command)
WriteCommand ==
    \E cmd \in PlainCommands :
        \E call \in {PyWriteCommand(writer, sink, cmd)} :
            LET res == call.res
                out == PyWriteResult(res)
            IN /\ sink.keeps => Len(sink.log) < MaxWrites
               /\ writer' = call.writer
               /\ wlast' = WLast("write_command", cmd, NoPyOptions, <<>>, <<>>, <<>>)
               /\ sink' = Logged(res.sink, "write_command", cmd, writer.level, res.bytes)
               /\ wio' = Wio(out.r, out.exc, res.calls, res.bytes, FALSE, 0)
               /\ UNCHANGED <<wcfgArg, moves>>
               /\ UNCHANGED <<pvars, cvars>>

\* writer.newline()
Newline ==
    LET res == CoreNewline(writer, sink)
        out == PyNewlineResult(res)
    IN /\ sink.keeps => Len(sink.log) < MaxWrites
       /\ wlast' = WLastOf("newline")
       /\ sink' = Logged(res.sink, "newline", NewText(""), writer.level, res.bytes)
       /\ wio' = Wio(out.r, out.exc, res.calls, res.bytes, FALSE, 0)
       /\ UNCHANGED <<wcfgArg, writer, moves>>
       /\ UNCHANGED <<pvars, cvars>>

\* writer.inc_indent()
IncIndent ==
    /\ Len(moves) < MaxMoves
    /\ writer' = PyIncIndent(writer)
    /\ moves' = Append(moves, "inc")
    /\ wlast' = WLastOf("inc_indent")
    /\ wio' = WioNew
    /\ UNCHANGED <<wcfgArg, sink>>
    /\ UNCHANGED <<pvars, cvars>>

\* writer.dec_indent()
DecIndent ==
    /\ Len(moves) < MaxMoves
    /\ writer' = PyDecIndent(writer)
    /\ moves' = Append(moves, "dec")
    /\ wlast' = WLastOf("dec_indent")
    /\ wio' = WioNew
    /\ UNCHANGED <<wcfgArg, sink>>
    /\ UNCHANGED <<pvars, cvars>>

\* writer.get_indent()
GetIndent ==
    /\ wlast' = WLastOf("get_indent")
    /\ wio' = Wio("ret", NoExc, 0, <<>>, FALSE, PyGetIndent(writer))
    /\ UNCHANGED <<wcfgArg, writer, sink, moves>>
    /\ UNCHANGED <<pvars, cvars>>

\* writer.close()
Close ==
    LET out == PyClose(writer, sink)
    IN /\ writer' = out.writer
       /\ sink' = out.sink
       /\ wlast' = WLastOf("close")
       /\ wio' = Wio(out.r, out.exc, 0, <<>>, out.flushed, 0)
       /\ UNCHANGED <<wcfgArg, moves>>
       /\ UNCHANGED <<pvars, cvars>>

\* leaving `with writer:`
Exit ==
    LET out == PyExit(writer, sink)
    IN /\ writer' = out.writer
       /\ sink' = out.sink
       /\ wlast' = WLastOf("__exit__")
       /\ wio' = Wio(out.r, out.exc, 0, <<>>, out.flushed, 0)
       /\ UNCHANGED <<wcfgArg, moves>>
       /\ UNCHANGED <<pvars, cvars>>

\* ---------------------------------------------------------------- host objects

\* a Python object: its type, and its value as a number, a string or its items
PyObj(py, i, s, items) == [py |-> py, i |-> i, s |-> s, items |-> items]

PyInt(n) == PyObj("int", n, "", <<>>)

\* a Python float, counted in halves
PyFloat(h) == PyObj("float", h, "", <<>>)

PyStr(s) == PyObj("str", 0, s, <<>>)

PyBool(b) == PyObj("bool", IF b THEN 1 ELSE 0, "", <<>>)

PyNone == PyObj("NoneType", 0, "", <<>>)

PyList(objs) == PyObj("list", 0, "", [i \in 1..Len(objs) |-> Pair("", objs[i])])

PyTuple(objs) == PyObj("tuple", 0, "", [i \in 1..Len(objs) |-> Pair("", objs[i])])

\* a dict: its items in insertion order, no key twice
PyDict(pairs) == PyObj("dict", 0, "", pairs)

\* dict[k] = v: a key already present keeps its place and takes the new value
PyDictSetItem(d, k, v) ==
    IF \E i \in 1..Len(d) : d[i].k = k
    THEN [i \in 1..Len(d) |-> IF d[i].k = k THEN Pair(k, v) ELSE d[i]]
    ELSE Append(d, Pair(k, v))

\* set_item for each pair in turn, from the n-th on
RECURSIVE SetItems(_, _, _)
SetItems(d, pairs, n) ==
    IF n > Len(pairs) THEN d
    ELSE SetItems(PyDictSetItem(d, pairs[n].k, pairs[n].v), pairs, n + 1)

\* obj.extract::<i64>(): an int, and a bool, which is an int
ExtractI64(obj) == [ok |-> obj.py \in {"int", "bool"}, i |-> obj.i]

\* obj.extract::<f64>(): a float, or a number that converts to one
ExtractF64(obj) ==
    [ok |-> obj.py \in {"float", "int", "bool"}, h |-> IF obj.py = "float" THEN obj.i ELSE 2 * obj.i]

\* obj.extract::<String>()
ExtractString(obj) == [ok |-> obj.py = "str", s |-> obj.s]

\* obj.extract::<bool>()
ExtractBool(obj) == [ok |-> obj.py = "bool", b |-> obj.i = 1]

\* the error of an extract::<String>() that fails
NotAString(obj) ==
    PlainErr("TypeError", "'" \o obj.py \o "' object cannot be converted to 'PyString'")

\* ---------------------------------------------------------------- the Command object: conversions

ConvOk(val) == [ok |-> TRUE, val |-> val, exc |-> NoExc]

ConvErr(val, exc) == [ok |-> FALSE, val |-> val, exc |-> exc]

\* the first failure of a sequence of conversions
FirstErr(convs) ==
    convs[CHOOSE i \in 1..Len(convs) : ~convs[i].ok /\ \A j \in 1..(i - 1) : convs[j].ok].exc

AllOk(convs) == \A i \in 1..Len(convs) : convs[i].ok

\* py_to_rs_value: i64, then f64, then String, then bool
PyToRsValue(obj) ==
    IF ExtractI64(obj).ok THEN ConvOk(IntV(ExtractI64(obj).i))
    ELSE IF ExtractF64(obj).ok THEN ConvOk(FloatV(ExtractF64(obj).h))
    ELSE IF ExtractString(obj).ok THEN ConvOk(StrV(ExtractString(obj).s))
    ELSE IF ExtractBool(obj).ok THEN ConvOk(BoolV(ExtractBool(obj).b))
    ELSE ConvErr(IntV(0),
                 PlainErr("ValueError", "Unsupported type for Value conversion: " \o obj.py))

\* rs_value_to_py
RsValueToPy(v) ==
    CASE v.t = "Int" -> PyInt(v.i)
      [] v.t = "Float" -> PyFloat(v.i)
      [] v.t = "String" -> PyStr(v.s)
      [] v.t = "Bool" -> PyBool(v.i = 1)

\* py_to_rs_composite_value: a list, a dict (its keys are strings here), or a single value
PyToRsCompositeValue(obj) ==
    IF obj.py = "list"
    THEN LET vs == [i \in 1..Len(obj.items) |-> PyToRsValue(obj.items[i].v)]
         IN IF AllOk(vs)
            THEN ConvOk(ListV([i \in 1..Len(vs) |-> vs[i].val]))
            ELSE ConvErr(Single(IntV(0)), FirstErr(vs))
    ELSE IF obj.py = "dict"
    THEN LET vs == [i \in 1..Len(obj.items) |-> PyToRsValue(obj.items[i].v)]
         IN IF AllOk(vs)
            THEN ConvOk(DictV([i \in 1..Len(vs) |-> Pair(obj.items[i].k, vs[i].val)]))
            ELSE ConvErr(Single(IntV(0)), FirstErr(vs))
    ELSE LET v == PyToRsValue(obj)
         IN IF v.ok THEN ConvOk(Single(v.val)) ELSE ConvErr(Single(IntV(0)), v.exc)

\* rs_composite_value_to_py: a Dict becomes a dict built by set_item, pair by pair
RsCompositeValueToPy(cv) ==
    CASE cv.c = "Single" -> RsValueToPy(cv.items[1].v)
      [] cv.c = "List" -> PyList([i \in 1..Len(cv.items) |-> RsValueToPy(cv.items[i].v)])
      [] cv.c = "Dict" ->
            PyDict(SetItems(<<>>, [i \in 1..Len(cv.items) |->
                                      Pair(cv.items[i].k, RsValueToPy(cv.items[i].v))], 1))

\* a py_to_rs_parameter that takes the first two elements of any longer tuple
PyToRsParameter_Loose(obj) ==
    IF obj.py = "tuple" /\ Len(obj.items) >= 2
    THEN LET name == ExtractString(obj.items[1].v)
             value == PyToRsCompositeValue(obj.items[2].v)
         IN IF ~name.ok THEN ConvErr(NoParam, NotAString(obj.items[1].v))
            ELSE IF ~value.ok THEN ConvErr(NoParam, value.exc)
            ELSE ConvOk(Composite(name.s, value.val))
    ELSE LET v == PyToRsValue(obj)
         IN IF v.ok THEN ConvOk(Basic(v.val)) ELSE ConvErr(NoParam, v.exc)

\* py_to_rs_parameter: a tuple of two is (name, value), anything else a basic value
PyToRsParameter(obj) ==
    IF obj.py = "tuple" /\ Len(obj.items) = 2
    THEN LET name == ExtractString(obj.items[1].v)
             value == PyToRsCompositeValue(obj.items[2].v)
         IN IF ~name.ok THEN ConvErr(NoParam, NotAString(obj.items[1].v))
            ELSE IF ~value.ok THEN ConvErr(NoParam, value.exc)
            ELSE ConvOk(Composite(name.s, value.val))
    ELSE LET v == PyToRsValue(obj)
         IN IF v.ok THEN ConvOk(Basic(v.val)) ELSE ConvErr(NoParam, v.exc)

\* rs_parameter_to_py
RsParameterToPy(param) ==
    IF param.kind = "Basic"
    THEN RsValueToPy(param.cv.items[1].v)
    ELSE PyTuple(<<PyStr(param.name), RsCompositeValueToPy(param.cv)>>)

\* the objects of a list or a tuple
Elements(obj) == [i \in 1..Len(obj.items) |-> obj.items[i].v]

\* ---------------------------------------------------------------- the Command object: methods

\* impl From<Command> for PyCommand: a Command handed over by the Parser
PyCommandFrom(command) == command

\* what a method of the Command object did: its result and the Command afterwards
CmdOut(r, exc, cmd, out) == [r |-> r, exc |-> exc, cmd |-> cmd, out |-> out]

\* PyCommand::params (getter)
PyParams(c) == PyList([i \in 1..Len(c.params) |-> RsParameterToPy(c.params[i])])

IsBasic(param) == param.kind = "Basic"

\* PyCommand::args (getter): the values of the basic parameters, as they come
PyArgs(c) ==
    LET bs == SelectSeq(c.params, IsBasic)
    IN PyList([i \in 1..Len(bs) |-> RsValueToPy(bs[i].cv.items[1].v)])

IsComposite(param) == param.kind = "Composite"

\* PyCommand::kwargs (getter): a dict built by set_item, one composite parameter after the other
PyKwargs(c) ==
    LET cs == SelectSeq(c.params, IsComposite)
    IN PyDict(SetItems(<<>>, [i \in 1..Len(cs) |->
                                 Pair(cs[i].name, RsCompositeValueToPy(cs[i].cv))], 1))

\* a set_params that stores each parameter as soon as it is converted
PySetParams_Partial(c, objs) ==
    LET ps == [i \in 1..Len(objs) |-> PyToRsParameter(objs[i])]
        good == {n \in 0..Len(ps) : \A i \in 1..n : ps[i].ok}
        upto == CHOOSE n \in good : \A m \in good : m <= n
    IN IF AllOk(ps)
       THEN CmdOut("ret", NoExc, Command(c.name, [i \in 1..Len(ps) |-> ps[i].val]), PyNone)
       ELSE CmdOut("raise", FirstErr(ps), Command(c.name, [i \in 1..upto |-> ps[i].val]), PyNone)

\* PyCommand::set_params (setter)
PySetParams(c, objs) ==
    LET ps == [i \in 1..Len(objs) |-> PyToRsParameter(objs[i])]
    IN IF AllOk(ps)
       THEN CmdOut("ret", NoExc, Command(c.name, [i \in 1..Len(ps) |-> ps[i].val]), PyNone)
       ELSE CmdOut("raise", FirstErr(ps), c, PyNone)

\* an add_param that puts the parameter in front
PyAddParam_Front(c, obj) ==
    LET p == PyToRsParameter(obj)
    IN IF p.ok
       THEN CmdOut("ret", NoExc, Command(c.name, <<p.val>> \o c.params), PyNone)
       ELSE CmdOut("raise", p.exc, c, PyNone)

\* PyCommand::add_param: self.inner.params.push(rs_param)
PyAddParam(c, obj) ==
    LET p == PyToRsParameter(obj)
    IN IF p.ok
       THEN CmdOut("ret", NoExc, Command(c.name, Append(c.params, p.val)), PyNone)
       ELSE CmdOut("raise", p.exc, c, PyNone)

\* the last call on the Command object: its argument, the parameters before it,
\* what it returned, and whether the argument was the list the getter just returned
CLast(op, r, exc, before, arg, out, echo) ==
    [op |-> op, r |-> r, exc |-> exc, before |-> before, arg |-> arg, out |-> out, echo |-> echo]

CLastNew == CLast("new", "ret", NoExc, <<>>, PyNone, PyNone, FALSE)

\* the parameters given to add_param
HostParams ==
    { PyInt(5), PyBool(TRUE), PyTuple(<<PyStr("k"), PyInt(2)>>),
      PyTuple(<<PyStr("m"), PyDict(<<Pair("a", PyFloat(3))>>)>>), PyNone, PyTuple(<<PyStr("k"), PyInt(2), PyInt(3)>>) }

\* the lists assigned to params
HostParamLists ==
    { <<>>, <<PyStr("s"), PyTuple(<<PyStr("k"), PyList(<<PyInt(1), PyInt(2)>>)>>)>>,
      <<PyInt(5), PyTuple(<<PyInt(1), PyInt(2)>>)>>, <<PyStr("s"), PyNone>> }

\* command.add_param(param)
AddParam ==
    \E obj \in HostParams :
        \E call \in {PyAddParam(pcmd, obj)} :
            /\ Len(pcmd.params) < MaxParams
            /\ pcmd' = call.cmd
            /\ clast' = CLast("add_param", call.r, call.exc, pcmd.params, obj, call.out, FALSE)
            /\ UNCHANGED <<pvars, wvars>>

\* command.params
Params ==
    /\ pcmd' = pcmd
    /\ clast' = CLast("params", "ret", NoExc, pcmd.params, PyNone, PyParams(pcmd), FALSE)
    /\ UNCHANGED <<pvars, wvars>>

\* command.args
Args ==
    /\ pcmd' = pcmd
    /\ clast' = CLast("args", "ret", NoExc, pcmd.params, PyNone, PyArgs(pcmd), FALSE)
    /\ UNCHANGED <<pvars, wvars>>

\* command.kwargs
Kwargs ==
    /\ pcmd' = pcmd
    /\ clast' = CLast("kwargs", "ret", NoExc, pcmd.params, PyNone, PyKwargs(pcmd), FALSE)
    /\ UNCHANGED <<pvars, wvars>>

\* command.params = params, the list being a fresh one or the one command.params just returned
SetParams ==
    \E objs \in HostParamLists \cup (IF clast.op = "params" THEN {Elements(clast.out)} ELSE {}) :
        \E call \in {PySetParams(pcmd, objs)} :
            /\ pcmd' = call.cmd
            /\ clast' = CLast("set_params", call.r, call.exc, pcmd.params, PyList(objs), call.out,
                              clast.op = "params" /\ objs = Elements(clast.out))
            /\ UNCHANGED <<pvars, wvars>>

\* writer.write_command(command), the Command object being the one at hand; once per Writer
WriteCommandObject ==
    \E call \in {PyWriteCommand(writer, sink, pcmd)} :
        LET res == call.res
            out == PyWriteResult(res)
        IN /\ wlast.op = "new"
           /\ writer' = call.writer
           /\ wlast' = WLast("write_command", pcmd, NoPyOptions, <<>>, <<>>, <<>>)
           /\ sink' = Logged(res.sink, "write_command", pcmd, writer.level, res.bytes)
           /\ wio' = Wio(out.r, out.exc, res.calls, res.bytes, FALSE, 0)
           /\ UNCHANGED <<wcfgArg, moves>>
           /\ UNCHANGED <<pvars, cvars>>

\* ---------------------------------------------------------------- the state machines

Sources(outcomes) == UNION {[1..n -> outcomes] : n \in 0..MaxLines}

SessionLines ==
    { Line(1, <<NameTok("a")>>), Line(1, <<NameTok("b"), IntTok(7)>>), Line(0, <<IntTok(7)>>),
      Line(1, <<NameTok("a"), IllegalTok>>), Line(1, <<NameTok("a"), OpenTok>>),
      Line(1, <<NameTok("a"), CloseTok>>), BlankLine }

SessionReads == {ReadStr(l) : l \in SessionLines} \cup {ReadRaise, ReadNonStr}

SessionConfigs ==
    {NoConfig} \cup {SomeConfig(PyParserConfig(NoThreshold, FALSE, TRUE, tb)) : tb \in BOOLEAN}

SessionNames == {NoName, SomeName(PlainName), SomeName(NulName)}

Constructed ==
    /\ cursor = 0
    /\ config = PyParserNew(cfgArg).config
    /\ inner = PyParserNew(cfgArg).inner
    /\ pc = "idle"
    /\ delivered = <<>>
    /\ last = LastNew

\* a Writer just constructed
WriterConstructed ==
    /\ writer = PyWriterNew(wcfgArg)
    /\ wlast = WLastNew
    /\ moves = <<>>
    /\ wio = WioNew

\* a sink that accepts every write and records nothing
NullSink == Sink(FALSE, FALSE, 0)

\* a Command object just constructed
CommandConstructed ==
    /\ pcmd = PyCommandFrom(Command("cmd", <<>>))
    /\ clast = CLastNew

Init ==
    /\ cfgArg \in SessionConfigs
    /\ file \in [name : SessionNames, reads : Sources(SessionReads)]
    /\ Constructed
    /\ wcfgArg = NoWriterConfig
    /\ sink = NullSink
    /\ WriterConstructed
    /\ CommandConstructed

Next ==
    \/ NextCommand
    \/ DunderNext
    \/ ProcessWithEnter
    \/ ProcessWithLoop

Spec == Init /\ [][Next]_vars

\* one line under every configuration
Bodies ==
    { <<NameTok("a")>>, <<NameTok("a"), IntTok(7)>>, <<IntTok(42)>>, <<IntTok(42), NameTok("x")>>,
      <<NameTok("a"), IllegalTok>> }

AllLines == {Line(m, b) : m \in 0..MaxThreshold, b \in Bodies}

AllConfigs ==
    {NoConfig} \cup
    {SomeConfig(PyParserConfig(th, FALSE, conv, FALSE)) :
        th \in {NoThreshold} \cup {SomeThreshold(n) : n \in 1..MaxThreshold}, conv \in BOOLEAN}

InitLine ==
    /\ cfgArg \in AllConfigs
    /\ file \in [name : {SomeName(PlainName)}, reads : {<<ReadStr(l)>> : l \in AllLines}]
    /\ Constructed
    /\ wcfgArg = NoWriterConfig
    /\ sink = NullSink
    /\ WriterConstructed
    /\ CommandConstructed

SpecLine == InitLine /\ [][Next]_vars

\* a Writer under every configuration, beside a Parser on an empty source
InitW ==
    /\ cfgArg = NoConfig
    /\ file = [name |-> NoName, reads |-> <<>>]
    /\ Constructed
    /\ wcfgArg \in WriterConfigs
    /\ sink = NullSink
    /\ WriterConstructed
    /\ CommandConstructed

NextW == WriteCommandWithOptions

SpecW == InitW /\ [][NextW]_vars

\* tab indentation
WithTabs(o) == [o EXCEPT !.use_tabs = TRUE]

\* the configurations of the Writers that write plain commands
PlainConfigs ==
    {NoWriterConfig} \cup
    {SomeWriterConfig(PyWriterConfig(g, co, th)) :
        g \in {PyFormatterOptions(2, "UNKNOWN", FALSE), WithTabs(PyFormatterOptions(4, "UNKNOWN", FALSE))},
        co \in UNION {[S -> {PyFormatterOptions(3, "UNKNOWN", FALSE)}] : S \in SUBSET {"cmd"}},
        th \in 1..MaxThreshold}

\* their sinks: one that records every call, and ones that fail after a few writes
PlainSinks == {Sink(TRUE, FALSE, 0)} \cup {Sink(FALSE, TRUE, n) : n \in 0..MaxBudget}

\* a Writer with its sink, beside a Parser on an empty source
InitIO ==
    /\ cfgArg = NoConfig
    /\ file = [name |-> NoName, reads |-> <<>>]
    /\ Constructed
    /\ wcfgArg \in PlainConfigs
    /\ sink \in PlainSinks
    /\ WriterConstructed
    /\ CommandConstructed

NextIO ==
    \/ WriteCommand
    \/ Newline
    \/ IncIndent
    \/ DecIndent
    \/ GetIndent
    \/ Close
    \/ Exit

SpecIO == InitIO /\ [][NextIO]_vars

\* the Commands the Parser hands over
ParsedCommands ==
    { Command("cmd", <<>>),
      Command("cmd", <<Basic(IntV(1)), Basic(BoolV(TRUE))>>),
      Command("cmd", <<Basic(FloatV(3)), Composite("k", ListV(<<StrV("s"), BoolV(FALSE)>>))>>),
      Command("cmd", <<Composite("k", DictV(<<Pair("a", IntV(1)), Pair("b", IntV(2))>>))>>),
      Command("cmd", <<Composite("k", DictV(<<Pair("a", IntV(1)), Pair("a", IntV(2))>>))>>) }

\* a Command object from the Parser, beside a Writer and a Parser on an empty source
InitC ==
    /\ cfgArg = NoConfig
    /\ file = [name |-> NoName, reads |-> <<>>]
    /\ Constructed
    /\ wcfgArg = NoWriterConfig
    /\ sink = NullSink
    /\ WriterConstructed
    /\ pcmd \in {PyCommandFrom(c) : c \in ParsedCommands}
    /\ clast = CLastNew

NextC ==
    \/ AddParam
    \/ Params
    \/ Args
    \/ Kwargs
    \/ SetParams
    \/ WriteCommandObject

SpecC == InitC /\ [][NextC]_vars

\* ---------------------------------------------------------------- claims: the parser

\* every readline() call returns a line, and every line parses
CleanSource ==
    \A n \in 1..Len(file.reads) :
        /\ file.reads[n].r = "str"
        /\ ParseLine(file.reads[n].line, inner.cfg, n, SourceName(file)).ok

\* the Command of the n-th source line
ExpectedCommand(n) == ParseLine(file.reads[n].line, inner.cfg, n, SourceName(file)).cmd.val

\* C1: on a source of N lines without parse or I/O failure, the commands handed out
\* so far are those of the first lines in source order, one per line read; a
\* next_command that returns a Command returns the one of the line it read, it
\* returns None only once all N lines are consumed, and __next__ does the same
\* with StopIteration in place of None.
C1_SourceOrder ==
    CleanSource =>
        /\ Len(delivered) = cursor
        /\ \A n \in 1..Len(delivered) : delivered[n] = ExpectedCommand(n)
        /\ last.op = "next_command" =>
              /\ last.r = "ret"
              /\ last.cmd.some => last.cmd.val = ExpectedCommand(cursor)
              /\ ~last.cmd.some => cursor = Len(file.reads)
        /\ last.op = "__next__" =>
              IF last.r = "ret"
              THEN last.cmd.some /\ last.cmd.val = ExpectedCommand(cursor)
              ELSE last.exc = StopIteration /\ cursor = Len(file.reads)

C1_Witness ==
    /\ CleanSource
    /\ Len(file.reads) = 2
    /\ Len(delivered) = 2
    /\ delivered[1] # delivered[2]
    /\ last.op = "next_command"
    /\ last.r = "ret"
    /\ ~last.cmd.some

\* the exception class raise_parser_err gives each parse error kind
ExceptionOf(kind) ==
    CASE kind = "SyntaxError" -> "KoiParserSyntaxError"
      [] kind = "UnexpectedInput" -> "KoiParserUnexpectedInputError"
      [] kind = "UnexpectedEof" -> "KoiParserUnexpectedEofError"
      [] OTHER -> ""

ParseFailed == ~last.core.ok /\ last.core.err.kind \in ParseKinds

IoFailed == ~last.core.ok /\ last.core.err.kind = "IoError"

\* C3: process_with returns (False, no exception) on the turn the callback answers
\* stop; on the turn the callback raises it raises the callback's exception; on the
\* turn a parse fails it raises that parse error without calling the callback; in
\* each case the loop is left.
C3_ProcessWithStops ==
    last.op = "process_with" =>
        /\ last.cb = "false" => (last.r = "ret" /\ ~last.flag /\ pc = "idle")
        /\ last.cb = "raise" => (last.r = "raise" /\ last.exc = CallbackExc /\ pc = "idle")
        /\ ParseFailed =>
              /\ last.r = "raise"
              /\ last.cb = "none"
              /\ pc = "idle"
              /\ last.exc.type = ExceptionOf(last.core.err.kind)
              /\ last.exc.payload = last.core.err.payload

C5_ErrorAttachment ==
    ~last.core.ok =>
        IF last.core.err.kind \in ParseKinds
        THEN /\ last.r = "raise"
             /\ last.exc.source.some
             /\ last.exc.source.val.filename = SourceName(file)
             /\ last.exc.source.val.lineno = inner.lineno
             /\ last.exc.source.val.text = [some |-> TRUE, val |-> LineText(last.line.line)]
        ELSE ~last.exc.source.some

\* C6: without a configuration the parser runs with command_threshold = 1,
\* skip_annotations = false, convert_number_command = true, and an unset
\* command_threshold is 1.
C6_DefaultConfig ==
    /\ ~cfgArg.some =>
          inner.cfg = [command_threshold |-> 1, skip_annotations |-> FALSE,
                       convert_number_command |-> TRUE]
    /\ (cfgArg.some /\ ~cfgArg.val.command_threshold.some) => inner.cfg.command_threshold = 1

\* the command_threshold the caller asked for
AskedThreshold ==
    IF cfgArg.some /\ cfgArg.val.command_threshold.some THEN cfgArg.val.command_threshold.val ELSE 1

\* the last line read came back as a command header: a Command under the header's
\* own name, or an error of the command parse
HeaderSeen ==
    IF last.cmd.some THEN last.cmd.val.name \notin {TextName, NumberName}
    ELSE last.exc.traceback.some /\ last.exc.traceback.val.context = "command"

\* C7: with threshold T >= 1, a line of exactly T-1 markers is never taken as a
\* command header, and a line of exactly T markers followed by a name always is
\* (its Command bears the header's name, or the command parse fails).
C7_ThresholdBoundary ==
    (last.line.r = "line" /\ AskedThreshold >= 1) =>
        LET line == last.line.line IN
        /\ line.marks = AskedThreshold - 1 => ~HeaderSeen
        /\ (line.marks = AskedThreshold /\ line.toks[1].k = "name") =>
              /\ HeaderSeen
              /\ last.cmd.some => last.cmd.val.name = line.toks[1].s

C7_Witness ==
    /\ last.line.r = "line"
    /\ AskedThreshold = 2
    /\ last.line.line.marks = 1
    /\ last.line.line.toks[1].k = "name"
    /\ last.cmd.some
    /\ last.cmd.val.name = TextName

\* the caller asked for convert_number_command
ConvertAsked == cfgArg.some /\ cfgArg.val.convert_number_command

BareInteger(line) == line.marks = 0 /\ line.toks # <<>> /\ line.toks[1].k = "int"

\* C8: with convert_number_command enabled a bare-integer line comes back as the
\* number command holding the integer followed by exactly the trailing tokens, in
\* order; with it disabled the line never comes back as a number command.
C8_NumberCommand ==
    (last.line.r = "line" /\ BareInteger(last.line.line) /\ cfgArg.some) =>
        LET toks == last.line.line.toks IN
        IF ConvertAsked
        THEN /\ last.cmd.some
             /\ last.cmd.val.name = NumberName
             /\ last.cmd.val.params =
                    <<Basic(IntV(toks[1].i))>> \o [j \in 1..(Len(toks) - 1) |-> Basic(TokValue(toks[j + 1]))]
        ELSE ~(last.cmd.some /\ last.cmd.val.name = NumberName)

C8_Witness ==
    /\ last.line.r = "line"
    /\ BareInteger(last.line.line)
    /\ ConvertAsked
    /\ last.cmd.some
    /\ Len(last.cmd.val.params) = 2
    /\ last.cmd.val.params[1] = Basic(IntV(42))

\* ---------------------------------------------------------------- claims: the writer

\* the options Python gave when it set nothing
PyDefaultOptions == PyFormatterOptions(4, "UNKNOWN", FALSE)

\* the layers Python gave for parameter i of the last call, highest priority first
GivenLayers(i) ==
    (IF wlast.picks[i] = NoSelector THEN <<>> ELSE <<wlast.param_options[wlast.picks[i]]>>)
    \o (IF wlast.options.some THEN <<wlast.options.val>> ELSE <<>>)
    \o (IF wcfgArg.some /\ wlast.cmd.name \in DOMAIN wcfgArg.val.command_options
        THEN <<wcfgArg.val.command_options[wlast.cmd.name]>> ELSE <<>>)
    \o <<IF wcfgArg.some THEN wcfgArg.val.global_options ELSE PyDefaultOptions>>

\* a field's value as the writer holds it
Held(layer, f) == IF f = "number_format" THEN NumberFormatFrom(layer[f]) ELSE layer[f]

\* the layer of a chain that decides field f: the first that sets f or replaces
\* what is below it, and the last one otherwise
Decides(chain, f) ==
    LET stops(n) == n = Len(chain) \/ chain[n].should_override \/ chain[n][f] # PyDefaultOptions[f]
    IN chain[CHOOSE n \in 1..Len(chain) : stops(n) /\ \A m \in 1..(n - 1) : ~stops(m)]

WithOptionsCalled == wlast.op = "write_command_with_options"

Below(i) ==
    MergeChain(Layers(writer.config, wlast.cmd,
                      WithOptionsArgs(wlast.options, wlast.param_options).opt, NoParamMap, NoSelector))

GivenFor(cmd) ==
    IF ~wcfgArg.some THEN PyDefaultOptions
    ELSE IF cmd.name \in DOMAIN wcfgArg.val.command_options
         THEN wcfgArg.val.command_options[cmd.name]
         ELSE wcfgArg.val.global_options

\* the command_threshold Python gave
GivenThreshold == IF wcfgArg.some THEN wcfgArg.val.command_threshold ELSE 1

WriteCommandReturned == wlast.op = "write_command" /\ wio.r = "ret"

\* C11: write_command(cmd) formats the header and every parameter of cmd with
\* command_options[cmd.name] when that entry exists and with global_options
\* otherwise, and the header carries exactly command_threshold markers.
C11_WriteCommandOptions ==
    WriteCommandReturned =>
        LET o == GivenFor(wlast.cmd)
            header == wio.bytes[1]
        IN /\ Len(wio.bytes) = 1 + Len(wlast.cmd.params)
           /\ header.part = "header"
           /\ header.marks = GivenThreshold
           /\ header.name = wlast.cmd.name
           /\ header.pad = IF o.use_tabs THEN "\t" ELSE " "
           /\ header.n = IF o.use_tabs THEN writer.level ELSE o.indent * writer.level
           /\ \A i \in 1..Len(wlast.cmd.params) :
                 wio.bytes[i + 1].fmt = Held(o, "number_format")

\* "cmd" written one level deep by a Writer whose command_options["cmd"] indents
\* by 3 over global options that indent by 2, with the largest threshold
C11_Witness ==
    /\ WriteCommandReturned
    /\ wlast.cmd.name = "cmd"
    /\ wcfgArg.some
    /\ "cmd" \in DOMAIN wcfgArg.val.command_options
    /\ wcfgArg.val.global_options.indent = 2
    /\ wcfgArg.val.command_threshold = MaxThreshold
    /\ writer.level = 1
    /\ wio.bytes[1].n = 3
    /\ wio.bytes[1].marks = MaxThreshold

\* ---------------------------------------------------------------- claims: indentation

\* the count a sequence of inc_indent / dec_indent calls gives: 1 more per inc, 1
\* less per dec, a dec at zero skipped
RECURSIVE Counted(_)
Counted(ms) ==
    IF ms = <<>> THEN 0
    ELSE LET before == Counted(SubSeq(ms, 1, Len(ms) - 1))
         IN IF ms[Len(ms)] = "inc" THEN before + 1
            ELSE IF before = 0 THEN 0 ELSE before - 1

\* C12: after any sequence of inc_indent and dec_indent calls the indent level is
\* never negative and equals the count of the calls with a dec at zero skipped,
\* get_indent returns that count, and dec_indent at level 0 leaves the level at 0.
C12_IndentCount ==
    /\ writer.level >= 0
    /\ writer.level = Counted(moves)
    /\ wlast.op = "get_indent" => wio.value = Counted(moves)
    /\ (wlast.op = "dec_indent" /\ Counted(SubSeq(moves, 1, Len(moves) - 1)) = 0) => writer.level = 0

\* dec_indent at level 0, then inc_indent, then get_indent returning 1
C12_Witness ==
    /\ wlast.op = "get_indent"
    /\ moves = <<"dec", "inc">>
    /\ wio.value = 1

\* C13: with use_tabs = false and indent = k, a command written after inc_indent /
\* dec_indent calls that count to n starts its line with exactly k * n spaces, and
\* with none at level 0.
C13_SpacePrefix ==
    (WriteCommandReturned /\ ~GivenFor(wlast.cmd).use_tabs) =>
        /\ wio.bytes[1].pad = " "
        /\ wio.bytes[1].n = GivenFor(wlast.cmd).indent * Counted(moves)
        /\ Counted(moves) = 0 => wio.bytes[1].n = 0

\* indent = 2, one inc_indent, then a command: two spaces
C13_Witness ==
    /\ WriteCommandReturned
    /\ wcfgArg.some
    /\ GivenFor(wlast.cmd).indent = 2
    /\ ~GivenFor(wlast.cmd).use_tabs
    /\ moves = <<"inc">>
    /\ wio.bytes[1].pad = " "
    /\ wio.bytes[1].n = 2

\* ---------------------------------------------------------------- claims: the sink

SinkFailed == wio.r = "raise" /\ wlast.op \in {"write_command", "write_command_with_options", "newline"}

\* C15: when the sink's write() raises during write_command,
\* write_command_with_options or newline, the call raises that same exception,
\* unchanged, and the failing write() is the last sink call of the operation.
C15_SinkFailureVerbatim ==
    SinkFailed =>
        /\ wio.exc = SinkWriteExc
        /\ wio.calls = Len(wio.bytes) + 1

\* C16: when close() or __exit__ returns, every byte written through the Writer
\* has been handed to the sink and the call has flushed the sink.
C16_CloseFlushes ==
    wlast.op \in {"close", "__exit__"} =>
        /\ wio.r = "ret"
        /\ wio.flushed
        /\ sink.flushes > 0

\* ---------------------------------------------------------------- claims: end of input

NextCommandCalled == last.op = "next_command"

\* C17: next_command returns None only when readline() returned the empty string,
\* all lines being consumed; a line that was read, a blank one included, comes
\* back as a Command or an error; and the end of input is returned, not raised.
C17_NoneOnlyAtEof ==
    NextCommandCalled =>
        /\ (last.r = "ret" /\ ~last.cmd.some) => (last.line = LineEof /\ cursor = Len(file.reads))
        /\ last.line.r = "line" => (last.r = "raise" \/ last.cmd.some)
        /\ last.line.r = "eof" => (last.r = "ret" /\ ~last.cmd.some)

\* a blank line read with another line still unread, and a Command returned
C17_Witness ==
    /\ NextCommandCalled
    /\ last.line = LineOk(BlankLine)
    /\ cursor < Len(file.reads)
    /\ last.r = "ret"
    /\ last.cmd.some

\* ---------------------------------------------------------------- claims: the Command object

\* two parameters that are the same parameter up to what the conversion does to a value's type
SameSlot(p, q) ==
    /\ p.kind = q.kind
    /\ p.name = q.name
    /\ p.cv.c = q.cv.c
    /\ p.kind = "Basic" => (p.cv.items[1].v.i = q.cv.items[1].v.i /\ p.cv.items[1].v.s = q.cv.items[1].v.s)

\* C18: the order of a Command's parameters is kept: the params getter returns them
\* in stored order, add_param appends at the end and leaves the parameters before it
\* at their indices, and the Writer emits them in stored order.
C18_ParamOrder ==
    /\ (clast.op = "add_param" /\ clast.r = "ret") =>
            /\ Len(pcmd.params) = Len(clast.before) + 1
            /\ SubSeq(pcmd.params, 1, Len(clast.before)) = clast.before
            /\ pcmd.params[Len(pcmd.params)] = PyToRsParameter(clast.arg).val
    /\ clast.op = "params" =>
            /\ Len(clast.out.items) = Len(pcmd.params)
            /\ \A i \in 1..Len(pcmd.params) :
                    /\ PyToRsParameter(clast.out.items[i].v).ok
                    /\ SameSlot(PyToRsParameter(clast.out.items[i].v).val, pcmd.params[i])
    /\ (wlast.op = "write_command" /\ wio.r = "ret") =>
            /\ Len(wio.bytes) = Len(wlast.cmd.params) + 1
            /\ \A i \in 1..Len(wlast.cmd.params) : wio.bytes[i + 1].param = wlast.cmd.params[i]

\* add_param on a Command of two different parameters, the new one different from both,
\* after the Command was written
C18_Witness ==
    /\ clast.op = "add_param"
    /\ clast.r = "ret"
    /\ Len(clast.before) = 2
    /\ ~SameSlot(clast.before[1], clast.before[2])
    /\ \A i \in 1..2 : ~SameSlot(pcmd.params[3], clast.before[i])
    /\ wlast.op = "write_command"
    /\ wlast.cmd.params = clast.before

Keys(pairs) == [i \in 1..Len(pairs) |-> pairs[i].k]

\* the i-th parameter is a composite one holding a Dict
HoldsDict(params, i) == params[i].kind = "Composite" /\ params[i].cv.c = "Dict"

\* the last parameter of that name
LastOfName(params, i) == \A j \in (i + 1)..Len(params) : params[j].name # params[i].name

\* the value a dict holds under a key
DictGet(d, k) == d.items[CHOOSE i \in 1..Len(d.items) : d.items[i].k = k].v

\* C19: every pair of a Dict value is kept, in insertion order, repeated keys included,
\* in what the params and kwargs getters return and in what that converts back to.
C19_DictPairsKept ==
    /\ clast.op = "params" =>
            \A i \in 1..Len(pcmd.params) :
                HoldsDict(pcmd.params, i) =>
                    LET d == clast.out.items[i].v.items[2].v
                    IN /\ Keys(d.items) = Keys(pcmd.params[i].cv.items)
                       /\ PyToRsCompositeValue(d).val = pcmd.params[i].cv
    /\ clast.op = "kwargs" =>
            \A i \in 1..Len(pcmd.params) :
                (HoldsDict(pcmd.params, i) /\ LastOfName(pcmd.params, i)) =>
                    LET d == DictGet(clast.out, pcmd.params[i].name)
                    IN /\ Keys(d.items) = Keys(pcmd.params[i].cv.items)
                       /\ PyToRsCompositeValue(d).val = pcmd.params[i].cv

\* C20: a basic value read through the params getter and assigned back is the value
\* it was, of the same variant, and the assignment does not fail.
C20_ValueRoundTrip ==
    (clast.op = "set_params" /\ clast.echo) =>
        /\ clast.r = "ret"
        /\ Len(pcmd.params) = Len(clast.before)
        /\ \A i \in 1..Len(clast.before) :
                clast.before[i].kind = "Basic" => pcmd.params[i] = clast.before[i]

\* ---------------------------------------------------------------- claims: diagnostics

\* the line is a command whose input ends inside a list: the first token that is no
\* value opens a list
EndsInsideList(line) ==
    /\ IsHeader(line, inner.cfg.command_threshold)
    /\ \E j \in 2..Len(line.toks) :
          /\ line.toks[j].k = "open"
          /\ \A i \in 2..(j - 1) : line.toks[i].k \in {"int", "name"}

\* the innermost frame of a tree, going down through the children getter
RECURSIVE Deepest(_)
Deepest(entry) ==
    IF PyChildren(entry) = <<>> THEN entry
    ELSE Deepest(PyChildren(entry)[Len(PyChildren(entry))])

\* C21: a command line whose input ends inside a list literal fails with
\* KoiParserUnexpectedEofError, expected "closing bracket", and the deepest frame of
\* the tree attached to the exception is the frame of the list parse.
C21_UnterminatedList ==
    (last.op # "new" /\ last.line.r = "line" /\ EndsInsideList(last.line.line)) =>
        /\ last.r = "raise"
        /\ last.exc.type = "KoiParserUnexpectedEofError"
        /\ last.exc.payload = "closing bracket"
        /\ last.exc.traceback.some
        /\ Deepest(last.exc.traceback.val).context = "list"

\* ---------------------------------------------------------------- claims: args and kwargs

\* the indices of the parameters of one kind, in stored order
RECURSIVE IndicesOf(_, _, _)
IndicesOf(params, kind, i) ==
    IF i > Len(params) THEN <<>>
    ELSE IF params[i].kind = kind THEN <<i>> \o IndicesOf(params, kind, i + 1)
    ELSE IndicesOf(params, kind, i + 1)

Mutated == clast.op \in {"set_params", "add_param"}

\* the objects handed to the last mutation
Handed == IF clast.op = "set_params" THEN Elements(clast.arg) ELSE <<clast.arg>>

\* C28: a mutation of a Command that fails leaves it unchanged: when an element given
\* to the params setter, or the parameter given to add_param, does not convert, the
\* call raises and the Command holds the parameters it held before.
C28_FailedMutation ==
    Mutated =>
        /\ (\E i \in 1..Len(Handed) : ~PyToRsParameter(Handed[i]).ok) => clast.r = "raise"
        /\ clast.r = "raise" => pcmd.params = clast.before

\* the setter given a list whose first element converts and whose second is of an
\* unsupported type, on a Command that holds parameters
C28_Witness ==
    /\ clast.op = "set_params"
    /\ clast.r = "raise"
    /\ clast.exc.type = "ValueError"
    /\ Len(Handed) = 2
    /\ PyToRsParameter(Handed[1]).ok
    /\ Len(clast.before) >= 1
    /\ pcmd.params = clast.before

\* ---------------------------------------------------------------- claims: parameter kinds

IsPair(obj) == obj.py = "tuple" /\ Len(obj.items) = 2

\* C29: a host value becomes a Composite parameter exactly when it is a tuple of two
\* elements, and a Basic parameter otherwise; a tuple of another length, and a tuple
\* of two whose first element is no string, are rejected; and every parameter the
\* params getter returns converts back to a parameter of the same kind.
C29_ParameterKinds ==
    /\ Mutated =>
            /\ clast.r = "ret" =>
                    \A i \in 1..Len(Handed) :
                        LET at == Len(pcmd.params) - Len(Handed) + i
                        IN pcmd.params[at].kind = IF IsPair(Handed[i]) THEN "Composite" ELSE "Basic"
            /\ (\E i \in 1..Len(Handed) :
                    \/ Handed[i].py = "tuple" /\ ~IsPair(Handed[i])
                    \/ IsPair(Handed[i]) /\ Handed[i].items[1].v.py # "str") => clast.r = "raise"
    /\ clast.op = "params" =>
            \A i \in 1..Len(pcmd.params) :
                /\ PyToRsParameter(clast.out.items[i].v).ok
                /\ PyToRsParameter(clast.out.items[i].v).val.kind = pcmd.params[i].kind
                /\ IsPair(clast.out.items[i].v) <=> pcmd.params[i].kind = "Composite"

\* add_param refused a tuple of three elements that starts with a name and a value
C29_Witness ==
    /\ clast.op = "add_param"
    /\ clast.r = "raise"
    /\ clast.arg.py = "tuple"
    /\ Len(clast.arg.items) = 3
    /\ clast.arg.items[1].v.py = "str"
    /\ pcmd.params = clast.before

\* ---------------------------------------------------------------- claims: process_with

\* the last call was process_with and its loop has run a turn
LoopTurned == last.op = "process_with" /\ last.exc # NotCallableExc /\ (pc = "idle" \/ last.calls # <<>>)

\* the commands handed to the callback are those of the lines read since the call began
CallsInSourceOrder ==
    /\ Len(last.calls) = cursor - last.start
    /\ \A i \in 1..Len(last.calls) : last.calls[i] = ExpectedCommand(last.start + i)

\* C23: process_with returns True exactly when it reached the end of input, every
\* callback call before having answered continue, and False exactly when a callback
\* call answered False; in that case the callback was called once per command up to
\* and including the one that stopped it, in source order.
C23_ProcessWithResult ==
    LoopTurned =>
        /\ (last.r = "ret" /\ last.flag) <=> (pc = "idle" /\ last.line.r = "eof")
        /\ (last.r = "ret" /\ last.flag) => (cursor = Len(file.reads) /\ CallsInSourceOrder)
        /\ (last.r = "ret" /\ ~last.flag) <=> last.cb = "false"
        /\ last.cb = "false" =>
              /\ CallsInSourceOrder
              /\ last.calls # <<>>
              /\ last.cmd.val = last.calls[Len(last.calls)]

\* the callback answered False on the second of two different commands
C23_Witness ==
    /\ LoopTurned
    /\ last.r = "ret"
    /\ ~last.flag
    /\ last.cb = "false"
    /\ Len(last.calls) = 2
    /\ last.calls[1] # last.calls[2]

\* ---------------------------------------------------------------- claims: raise_parser_err

\* a tree seen through the children getter is the tree of the ParseError
RECURSIVE SameTree(_, _)
SameTree(py, entry) ==
    /\ py.lineno = entry.lineno
    /\ py.column_range = entry.column_range
    /\ py.context = entry.context
    /\ Len(PyChildren(py)) = Len(entry.children)
    /\ \A i \in 1..Len(entry.children) : SameTree(PyChildren(py)[i], entry.children[i])

RaiseParserErrCalled == ~last.core.ok /\ (last.op = "process_with" \/ last.core.err.kind # "IoError")

\* C25: raise_parser_err gives each kind its own exception; for the three parse kinds
\* the exception carries the payload, the traceback tree and the line source of the
\* ParseError; for IoError it is the wrapped I/O error.
C25_RaiseParserErr ==
    RaiseParserErrCalled =>
        IF last.core.err.kind \in ParseKinds
        THEN /\ last.raised.type = ExceptionOf(last.core.err.kind)
             /\ last.raised.payload = last.core.err.payload
             /\ last.raised.traceback.some = last.core.err.traceback.some
             /\ last.raised.traceback.some =>
                    SameTree(last.raised.traceback.val, last.core.err.traceback.val)
             /\ last.raised.source.some = last.core.err.source.some
             /\ last.raised.source.some =>
                    /\ last.raised.source.val.filename = last.core.err.source.val.filename
                    /\ last.raised.source.val.lineno = last.core.err.source.val.lineno
                    /\ last.raised.source.val.text = [some |-> TRUE, val |-> last.core.err.source.val.text]
        ELSE last.raised = IF last.core.err.io.wraps THEN last.core.err.io.pyerr
                           ELSE PlainErr("OSError", last.core.err.io.msg)

\* an UnexpectedInput error on the second line, with its tree of two frames and its source
C25_Witness ==
    /\ RaiseParserErrCalled
    /\ last.core.err.kind = "UnexpectedInput"
    /\ last.raised.type = "KoiParserUnexpectedInputError"
    /\ last.raised.traceback.some
    /\ PyChildren(last.raised.traceback.val) # <<>>
    /\ last.raised.source.some
    /\ last.raised.source.val.lineno = 2

\* ---------------------------------------------------------------- claims: what process_with consumes

\* C26: process_with given a callback that is not callable raises ValueError and reads
\* nothing: the cursor, the parser and the commands handed out are as before, and the
\* next_command that follows reads the line that was the first unread one.
C26_NonCallable ==
    [][/\ (last'.op = "process_with" /\ last'.exc = NotCallableExc) =>
            /\ last'.r = "raise"
            /\ last'.exc.type = "ValueError"
            /\ cursor' = cursor
            /\ inner' = inner
            /\ delivered' = delivered
            /\ pc' = "idle"
       /\ (last.op = "process_with" /\ last.exc = NotCallableExc /\ last'.op = "next_command") =>
            /\ last.start = cursor
            /\ last'.line = NextLine(file, last.start + 1)
            /\ cursor' = IF last.start < Len(file.reads) THEN last.start + 1 ELSE last.start]_vars

\* after one command was read, process_with refused its callback, and the next_command
\* that followed returned the second command
C26_Witness ==
    /\ last.op = "next_command"
    /\ last.prev = "notcallable"
    /\ last.start = 1
    /\ cursor = 2
    /\ last.cmd.some
    /\ delivered = <<ExpectedCommand(1), ExpectedCommand(2)>>
    /\ delivered[1] # delivered[2]

\* the commands of the lines read so far that gave one, in source order
RECURSIVE ParsedUpTo(_)
ParsedUpTo(n) ==
    IF n = 0 THEN <<>>
    ELSE LET o == file.reads[n]
             res == ParseLine(o.line, inner.cfg, n, SourceName(file))
         IN IF o.r = "str" /\ res.ok THEN Append(ParsedUpTo(n - 1), res.cmd.val)
            ELSE ParsedUpTo(n - 1)

EndedEarly == last.op = "process_with" /\ last.cb \in {"false", "raise", "nonbool"}

\* C27: when the callback ends process_with by answering False or by raising, the
\* lines consumed by the call are those of the commands it handed to the callback;
\* whatever is called next, the commands handed out are those of the lines read, in
\* source order, none skipped and none twice.
C27_ConsumedIsDelivered ==
    /\ EndedEarly => CallsInSourceOrder
    /\ delivered = ParsedUpTo(cursor)

\* process_with was ended by its callback on the first command, and the next_command
\* that followed returned the second
C27_Witness ==
    /\ last.op = "next_command"
    /\ last.prev = "early"
    /\ last.start = 1
    /\ cursor = 2
    /\ last.cmd.some
    /\ last.cmd.val = ExpectedCommand(2)
    /\ delivered = <<ExpectedCommand(1), ExpectedCommand(2)>>
    /\ delivered[1] # delivered[2]

====
